---- MODULE Spec2Model ----
(***************************************************************************)
(* Model of the BFD data-extraction server.                                *)
(*                                                                         *)
(*   - the Item Pipeline of src/extract-data.js: a prefetch stage of up to *)
(*     inParallel concurrent fetches feeding a serial render stage, with   *)
(*     four outcome buckets;                                               *)
(*   - the sharded POST /extract/ handler of src/unnamed/part_000: the     *)
(*     single-flight flag, the size check, de-duplication, normalisation,  *)
(*     the partition into Chrome instances, the deadline timer, the merge  *)
(*     and the two CSV logs;                                               *)
(*   - the POST /extract/ handler of src/endpoints/extract.js, which runs  *)
(*     one session per request and counts the active ones.                 *)
(*                                                                         *)
(* JavaScript runs one job at a time.  Every action below is one job: a    *)
(* timer callback, a promise reaction (a .then/.catch handler or the       *)
(* continuation of an await) or the synchronous part of a request handler. *)
(* Promise settlements by the browser arrive in any order; a handler that  *)
(* a handler has queued (the final .then of a fetch chain) is a separate   *)
(* job that other jobs can precede.  Timer callbacks only run when no      *)
(* promise reaction is pending.                                            *)
(***************************************************************************)
EXTENDS Integers, Sequences, FiniteSets, TLC

\* ------------------------------------------------------------------ bounds

\* Requests that arrive at the sharded endpoint in one behaviour.
MaxRequests == 2

\* Requests that arrive at the counting endpoint in one behaviour.
MaxCapacityRequests == 4

\* Sessions that are given a project in one behaviour of the counting endpoint.
MaxBusySessions == 1

\* Longest list handed to one directly called pipeline.
MaxItems == 2

\* Log lines of one project's 15 s timer that are followed.
MaxLongLoadReports == 1

\* Longest raw list of a request (besides the lists around the size limit).
MaxRawLen == 3

\* ------------------------------------------------------- program constants

inParallel == 5
maxChromeInstances == 3
maxBatchSize == 75

\* ------------------------------------------------------------ JS values

Undefined == "undefined"

Min(a, b) == IF a < b THEN a ELSE b

\* Math.ceil(n / d) for n >= 0, d > 0
Ceil(n, d) == (n + d - 1) \div d

\* Array.prototype.slice(from, to) with 0-based, end-exclusive indices
Slice(s, from, to) ==
    LET lo == Min(from, Len(s))
        hi == Min(to, Len(s))
    IN  IF hi <= lo THEN <<>> ELSE SubSeq(s, lo + 1, hi)

\* Array.prototype.indexOf, 1-based; 0 when absent (JS: -1)
IndexOf(s, x) ==
    IF \E i \in 1..Len(s) : s[i] = x
    THEN CHOOSE i \in 1..Len(s) : s[i] = x /\ \A j \in 1..(i - 1) : s[j] # x
    ELSE 0

\* Array.prototype.splice(k, 1) with a 1-based k
RemoveAt(s, k) == SubSeq(s, 1, k - 1) \o SubSeq(s, k + 1, Len(s))

\* [].concat(...lists)
RECURSIVE Concat(_)
Concat(lists) ==
    IF lists = <<>> THEN <<>> ELSE Head(lists) \o Concat(Tail(lists))

Range(s) == { s[i] : i \in 1..Len(s) }

\* ------------------------------------------------------------- strings
\* A URL is a sequence of tokens: a stem ("a", "b", "/") or one of the
\* suffix atoms below, so that "a.bfd_thumb.png" is <<"a", ".bfd", "_thumb.png">>.

DotBfd == ".bfd"
ThumbPng == "_thumb.png"
ThumbJpg == "_thumb.jpg"

\* String.prototype.endsWith('.bfd')
EndsWithBfd(u) == Len(u) >= 1 /\ u[Len(u)] = DotBfd

\* u.match(/\.bfd_thumb\.(jpg|png)$/): the captured extension, or Undefined
ThumbMatch(u) ==
    IF Len(u) >= 2 /\ u[Len(u) - 1] = DotBfd /\ u[Len(u)] \in {ThumbPng, ThumbJpg}
    THEN (IF u[Len(u)] = ThumbPng THEN "png" ELSE "jpg")
    ELSE Undefined

\* u.replace(thumbMatch[0], '.bfd'): a string pattern replaces its FIRST
\* occurrence in u, wherever that is
ReplaceThumbSuffix(u, ext) ==
    LET atom == IF ext = "png" THEN ThumbPng ELSE ThumbJpg
        at(i) == u[i] = DotBfd /\ u[i + 1] = atom
        k == CHOOSE i \in 1..(Len(u) - 1) : at(i) /\ \A j \in 1..(i - 1) : ~at(j)
    IN  SubSeq(u, 1, k) \o SubSeq(u, k + 2, Len(u))

\* ----------------------------------------------------------- admission
\* src/unnamed/part_000, the body of the POST /extract/ handler.

\* what the map callback returns for a reference that is neither form
JsFalse == [invalid |-> TRUE]

\* urls.filter((url, index) => urls.indexOf(url) === index)
RemoveDuplicates(urls) ==
    LET kept == SelectSeq([i \in 1..Len(urls) |-> i], LAMBDA i : IndexOf(urls, urls[i]) = i)
    IN  [j \in 1..Len(kept) |-> urls[kept[j]]]

\* the map callback: thumbnail URL -> BFD URL + isThumbTransparent flag
ConvertURL(bfdOrThumbURL) ==
    IF EndsWithBfd(bfdOrThumbURL)
    THEN [url |-> bfdOrThumbURL, isThumbTransparent |-> Undefined]
    ELSE LET thumbMatch == ThumbMatch(bfdOrThumbURL)
         IN  IF thumbMatch = Undefined THEN JsFalse
             ELSE [url |-> ReplaceThumbSuffix(bfdOrThumbURL, thumbMatch),
                   isThumbTransparent |-> IF thumbMatch = "png" THEN "true" ELSE "false"]

\* dedupe, map, filter(Boolean): the list handed to the partition
ValidateURLs(rawUrls) ==
    LET unique == RemoveDuplicates(rawUrls)
        mapped == [i \in 1..Len(unique) |-> ConvertURL(unique[i])]
    IN  SelectSeq(mapped, LAMBDA p : p # JsFalse)

\* the size check with >= in place of >: a list of exactly the limit is refused
TooManyURLsInclusive(rawUrls) == Len(rawUrls) >= maxChromeInstances * maxBatchSize

\* the size check made on the raw list
TooManyURLs(rawUrls) == Len(rawUrls) > maxChromeInstances * maxBatchSize

\* the batch size rounded down instead of up
BatchSizeRoundedDown(urls) == Len(urls) \div maxChromeInstances

\* Math.ceil(urls.length / maxChromeInstances)
BatchSizeOf(urls) == Ceil(Len(urls), maxChromeInstances)

\* a slice that runs one element into the next one
UrlsInBatchOverlapping(urls, index) ==
    Slice(urls, index * BatchSizeOf(urls), (index + 1) * BatchSizeOf(urls) + 1)

\* urls.slice(index * batchSize, (index + 1) * batchSize), index from 0
UrlsInBatch(urls, index) ==
    Slice(urls, index * BatchSizeOf(urls), (index + 1) * BatchSizeOf(urls))

\* the instances (1-based) that get a non-empty slice: Object.keys(batches)
InstanceIDs(urls) ==
    { k \in 1..maxChromeInstances : UrlsInBatch(urls, k - 1) # <<>> }

\* ------------------------------------------------------- Item Pipeline
\* src/extract-data.js, module.exports.  A pipeline is a record: the closure
\* state of one call.  JS booleans stored in objects are the strings "true"
\* and "false" so that an absent field can be Undefined; an absent list or
\* URL is <<>>, a deleted index is 0.

\* one element of queuedProjects (line 61); id is the object's identity and
\* attempts counts the requests the page made for it
NewProject(i, u) ==
    [id |-> i, index |-> i, url |-> u.url, isThumbTransparent |-> u.isThumbTransparent,
     sizeInKB |-> 0, error |-> Undefined, fontsToSwap |-> <<>>, thumbURL |-> <<>>,
     transparencyMismatch |-> Undefined, attempts |-> 0]

NoBuckets ==
    [openedProjects |-> <<>>, missingProjects |-> <<>>,
     fontSwapProjects |-> <<>>, unopenedProjects |-> <<>>]

\* a slot no call of extractData has used
AbsentPipeline ==
    [phase |-> "absent", urlsToProcess |-> <<>>,
     queuedProjects |-> <<>>, loadingProjects |-> <<>>, preloadedProjects |-> <<>>,
     missingProjects |-> <<>>, fontSwapProjects |-> <<>>,
     unopenedProjects |-> <<>>, openedProjects |-> <<>>,
     isOpeningProject |-> FALSE, opening |-> <<>>, chain |-> <<>>,
     timersFired |-> 0, closeCalls |-> 0, closing |-> 0,
     watchdog |-> <<>>, longLoadReports |-> <<>>,
     resolved |-> FALSE, result |-> NoBuckets]

\* lines 8-45: the call is waiting for the browser, the context and the page
LaunchingPipeline(urls) ==
    [AbsentPipeline EXCEPT !.phase = "launching", !.urlsToProcess = urls]

\* lines 54-72: the promise executor, once the page is ready
StartedPipeline(P) ==
    [P EXCEPT !.phase = "running",
              !.queuedProjects = [i \in 1..Len(P.urlsToProcess) |-> NewProject(i, P.urlsToProcess[i])],
              !.chain = [i \in 1..Len(P.urlsToProcess) |-> "idle"],
              !.watchdog = [i \in 1..Len(P.urlsToProcess) |-> "none"],
              !.longLoadReports = [i \in 1..Len(P.urlsToProcess) |-> 0]]

\* a preloadNextURL that asks for everything still queued, whatever is loading
PreloadNextURLGreedy(P) ==
    [P EXCEPT !.queuedProjects = <<>>,
              !.loadingProjects = @ \o P.queuedProjects,
              !.chain = [i \in 1..Len(P.chain) |->
                           IF \E q \in 1..Len(P.queuedProjects) : P.queuedProjects[q].id = i
                           THEN "net1" ELSE P.chain[i]],
              !.watchdog = [i \in 1..Len(P.chain) |->
                           IF \E q \in 1..Len(P.queuedProjects) : P.queuedProjects[q].id = i
                           THEN "armed" ELSE P.watchdog[i]]]

\* lines 74-100: preloadNextURL up to the page.$eval call; reportLongLoadTime
\* (line 87) arms the project's 15 s timer
PreloadNextURL(P) ==
    IF P.queuedProjects = <<>> THEN P
    ELSE IF Len(P.loadingProjects) >= inParallel THEN P
    ELSE LET project == Head(P.queuedProjects)
         IN  [P EXCEPT !.queuedProjects = Tail(@),
                       !.loadingProjects = Append(@, project),
                       !.chain[project.id] = "net1",
                       !.watchdog[project.id] = "armed"]

\* a timer callback that gives the fetch up: the project goes to missingProjects
ReportLongLoadTimeGivingUp(P, id) ==
    [P EXCEPT !.longLoadReports[id] = @ + 1,
              !.loadingProjects = SelectSeq(@, LAMBDA p : p.id # id),
              !.missingProjects = @ \o SelectSeq(P.loadingProjects, LAMBDA p : p.id = id)]

\* lines 135-140: the callback of the project's timer writes one line to the
\* log and arms the timer again
ReportLongLoadTime(P, id) ==
    [P EXCEPT !.longLoadReports[id] = @ + 1,
              !.watchdog[id] = "armed"]

\* the index in loadingProjects of the object with identity id; 0 if absent
LoadingIndexOf(P, id) ==
    IF \E k \in 1..Len(P.loadingProjects) : P.loadingProjects[k].id = id
    THEN CHOOSE k \in 1..Len(P.loadingProjects) : P.loadingProjects[k].id = id
    ELSE 0

\* openNextProject without its first line, the isOpeningProject test
OpenNextProjectUnguarded(P) ==
    IF P.preloadedProjects = <<>> /\ P.queuedProjects = <<>> /\ P.loadingProjects = <<>>
    THEN [P EXCEPT !.closeCalls = @ + 1, !.closing = @ + 1]
    ELSE IF P.preloadedProjects = <<>> THEN P
    ELSE [P EXCEPT !.preloadedProjects = Tail(@),
                   !.opening = Append(@, Head(P.preloadedProjects)),
                   !.isOpeningProject = TRUE]

\* an openNextProject that takes the project that became ready last
OpenNextProjectLastReady(P) ==
    IF P.isOpeningProject THEN P
    ELSE IF P.preloadedProjects = <<>> /\ P.queuedProjects = <<>> /\ P.loadingProjects = <<>>
    THEN [P EXCEPT !.closeCalls = @ + 1, !.closing = @ + 1]
    ELSE IF P.preloadedProjects = <<>> THEN P
    ELSE [P EXCEPT !.preloadedProjects = SubSeq(@, 1, Len(@) - 1),
                   !.opening = Append(@, P.preloadedProjects[Len(P.preloadedProjects)]),
                   !.isOpeningProject = TRUE]

\* a completion test that forgets the projects still loading
OpenNextProjectIgnoringLoading(P) ==
    IF P.isOpeningProject THEN P
    ELSE IF P.preloadedProjects = <<>> /\ P.queuedProjects = <<>>
    THEN [P EXCEPT !.closeCalls = @ + 1, !.closing = @ + 1]
    ELSE IF P.preloadedProjects = <<>> THEN P
    ELSE [P EXCEPT !.preloadedProjects = Tail(@),
                   !.opening = Append(@, Head(P.preloadedProjects)),
                   !.isOpeningProject = TRUE]

\* lines 147-198: openNextProject up to its first await
OpenNextProject(P) ==
    IF P.isOpeningProject THEN P
    ELSE IF P.preloadedProjects = <<>> /\ P.queuedProjects = <<>> /\ P.loadingProjects = <<>>
    THEN \* 'Finished': context.close() is called and awaited
         [P EXCEPT !.closeCalls = @ + 1, !.closing = @ + 1]
    ELSE IF P.preloadedProjects = <<>> THEN P
    ELSE [P EXCEPT !.preloadedProjects = Tail(@),
                   !.opening = Append(@, Head(P.preloadedProjects)),
                   !.isOpeningProject = TRUE]

\* the success handler without its splice: the project stays in loadingProjects
PreloadThenNoSplice(P, id, blobKB, attempts) ==
    LET k == LoadingIndexOf(P, id)
        project == [P.loadingProjects[k] EXCEPT !.sizeInKB = blobKB, !.attempts = attempts]
    IN  IF k = 0
        THEN [P EXCEPT !.chain[id] = "rejected"]
        ELSE [P EXCEPT !.preloadedProjects = Append(@, project),
                       !.chain[id] = "final"]

\* a success handler whose splice removes everything from its index on
PreloadThenSplicingToEnd(P, id, blobKB, attempts) ==
    LET k == LoadingIndexOf(P, id)
        project == [P.loadingProjects[k] EXCEPT !.sizeInKB = blobKB, !.attempts = attempts]
    IN  IF k = 0
        THEN [P EXCEPT !.chain[id] = "rejected"]
        ELSE [P EXCEPT !.loadingProjects = SubSeq(@, 1, k - 1),
                       !.preloadedProjects = Append(@, project),
                       !.chain[id] = "final"]

\* lines 101-111: the success handler of the fetch of the project id
PreloadThen(P, id, blobKB, attempts) ==
    LET k == LoadingIndexOf(P, id)
        project == [P.loadingProjects[k] EXCEPT !.sizeInKB = blobKB, !.attempts = attempts]
    IN  IF k = 0
        THEN \* 'Can't find loading URL': thrown here and again by the catch handler
             [P EXCEPT !.chain[id] = "rejected"]
        ELSE [P EXCEPT !.loadingProjects = RemoveAt(@, k),
                       !.preloadedProjects = Append(@, project),
                       !.chain[id] = "final"]

\* a failure handler that gives up on every project still loading
PreloadCatchFailsAll(P, id, error, attempts) ==
    LET k == LoadingIndexOf(P, id)
        failed == [i \in 1..Len(P.loadingProjects) |->
                      [P.loadingProjects[i] EXCEPT !.error = error]]
    IN  IF k = 0
        THEN [P EXCEPT !.chain[id] = "rejected"]
        ELSE [P EXCEPT !.loadingProjects = <<>>,
                       !.missingProjects = @ \o failed,
                       !.chain[id] = "final"]

\* lines 112-121: the failure handler of the fetch of the project id
PreloadCatch(P, id, error, attempts) ==
    LET k == LoadingIndexOf(P, id)
        project == [P.loadingProjects[k] EXCEPT !.error = error, !.attempts = attempts]
    IN  IF k = 0
        THEN \* 'Can't find loading URL'
             [P EXCEPT !.chain[id] = "rejected"]
        ELSE [P EXCEPT !.loadingProjects = RemoveAt(@, k),
                       !.missingProjects = Append(@, project),
                       !.chain[id] = "final"]

\* a last handler that starts the next fetch but not the next render
PreloadFinallyOnlyPreloads(P, id) ==
    PreloadNextURL([P EXCEPT !.chain[id] = "done", !.watchdog[id] = "cleared"])

\* lines 122-133: the last handler of the chain; clearTimeout(timeout)
\* (line 123) cancels the timer armed last
PreloadFinally(P, id) ==
    PreloadNextURL(OpenNextProject([P EXCEPT !.chain[id] = "done", !.watchdog[id] = "cleared"]))

\* url.split('/').pop()
FileNameOf(url) ==
    LET slashes == { i \in 1..Len(url) : url[i] = "/" }
        last == IF slashes = {} THEN 0
                ELSE CHOOSE i \in slashes : \A j \in slashes : j <= i
    IN  SubSeq(url, last + 1, Len(url))

\* lines 393-395 and 415: `/thumbnails/${bfdFileName.replace(/\.bfd/, ...)}`
ThumbURLOf(url, extension) ==
    LET name == FileNameOf(url)
        k == IndexOf(name, DotBfd)
        atom == IF extension = "png" THEN "_thumb_v1.png" ELSE "_thumb_v1.jpg"
    IN  <<"/thumbnails/">> \o
        (IF k = 0 THEN name
         ELSE SubSeq(name, 1, k) \o <<atom>> \o SubSeq(name, k + 1, Len(name)))

\* what one call of openProjectAndGenerateThumbnail (lines 242-454) can end
\* with: an exception, a font list (lines 298-301), or a thumbnail with its
\* metadata (lines 414-423).  isProjectTransparent is the page's answer.
RenderThrows == [threw |-> TRUE, error |-> "render error", fontsToSwap |-> <<>>,
                 thumbURL |-> <<>>, transparencyMismatch |-> Undefined]

RenderFonts == [threw |-> FALSE, error |-> Undefined, fontsToSwap |-> <<"f1">>,
                thumbURL |-> <<>>, transparencyMismatch |-> Undefined]

RenderThumb(project, isProjectTransparent) ==
    LET hint == project.isThumbTransparent
        isTransparent == IF hint = Undefined THEN isProjectTransparent ELSE hint = "true"
        mismatch == hint # Undefined /\ ((hint = "true") = ~isProjectTransparent)
    IN  [threw |-> FALSE, error |-> Undefined, fontsToSwap |-> <<>>,
         thumbURL |-> ThumbURLOf(project.url, IF isTransparent THEN "png" ELSE "jpg"),
         transparencyMismatch |-> IF mismatch THEN "true" ELSE "false"]

RenderResults(project) ==
    {RenderThrows, RenderFonts} \cup { RenderThumb(project, t) : t \in BOOLEAN }

\* a continuation that puts a project whose render threw back with the ready ones
OpenProjectSettledRetrying(P, k, result) ==
    LET project == P.opening[k]
    IN  IF result.threw
        THEN OpenNextProject(
               [P EXCEPT !.opening = RemoveAt(@, k),
                         !.isOpeningProject = FALSE,
                         !.preloadedProjects = Append(@, project)])
        ELSE OpenNextProject(
               [P EXCEPT !.opening = RemoveAt(@, k),
                         !.isOpeningProject = FALSE,
                         !.openedProjects = Append(@, project)])

\* lines 199-234: the continuation of the await, for the k-th outstanding call
OpenProjectSettled(P, k, result) ==
    LET project == P.opening[k]
        failed == [project EXCEPT !.error = result.error]
        hasFonts == ~result.threw /\ result.fontsToSwap # <<>>
        hasThumb == ~result.threw /\ result.thumbURL # <<>>
        withFonts == IF hasFonts THEN [project EXCEPT !.fontsToSwap = result.fontsToSwap]
                     ELSE project
        final == IF hasThumb
                 THEN [withFonts EXCEPT !.thumbURL = result.thumbURL,
                                        !.transparencyMismatch = result.transparencyMismatch]
                 ELSE withFonts
    IN  OpenNextProject(
          [P EXCEPT !.opening = RemoveAt(@, k),
                    !.isOpeningProject = FALSE,
                    !.unopenedProjects = IF result.threw THEN Append(@, failed) ELSE @,
                    !.fontSwapProjects = IF hasFonts THEN Append(@, final) ELSE @,
                    !.openedProjects = IF hasThumb THEN Append(@, final) ELSE @])

\* p => { delete p.index; return p; }
DeleteIndex(projects) == [i \in 1..Len(projects) |-> [projects[i] EXCEPT !.index = 0]]

\* lines 153-186: after the two closes, the buckets lose their index and
\* resolveQueue is called; a promise already resolved keeps its first value
ResolveQueue(P) ==
    LET stripped == [P EXCEPT !.openedProjects = DeleteIndex(@),
                              !.missingProjects = DeleteIndex(@),
                              !.fontSwapProjects = DeleteIndex(@),
                              !.unopenedProjects = DeleteIndex(@),
                              !.closing = @ - 1]
    IN  IF P.resolved THEN stripped
        ELSE [stripped EXCEPT !.resolved = TRUE,
                              !.result = [openedProjects |-> stripped.openedProjects,
                                          missingProjects |-> stripped.missingProjects,
                                          fontSwapProjects |-> stripped.fontSwapProjects,
                                          unopenedProjects |-> stripped.unopenedProjects]]

\* ---------------------------------------------------------------- state

VARIABLES
    variant,          \* the handler the server was built with
    pipe,             \* pipe[r][k]: the pipeline of instance k of request r
    isRunning,        \* part_000 line 8
    activeChromeInstances,   \* endpoints/extract.js line 7
    crashed,          \* the process died of an uncaught exception
    arrived,          \* number of requests received so far
    received,         \* received[r]: request.body.urls of request r
    req,              \* req[r]: the closure of the handler call of request r
    replies,          \* replies[r]: what request r was answered
    fontsCsv,         \* results/missing-fonts.csv, one entry per line
    transparencyCsv   \* results/transparency-mismatches.csv

vars == <<variant, pipe, isRunning, activeChromeInstances, crashed, arrived, received, req,
          replies, fontsCsv, transparencyCsv>>
endpointVars == <<variant, isRunning, activeChromeInstances, crashed, arrived, received, req,
                  replies, fontsCsv, transparencyCsv>>

Requests == 1..(IF MaxRequests > MaxCapacityRequests THEN MaxRequests ELSE MaxCapacityRequests)
Instances == 1..maxChromeInstances

NoReply == [status |-> 0, error |-> ""]

\* the handler's `result` before line 200 has run
NoResult ==
    [timedOutPrefix |-> FALSE, openedProjects |-> <<>>, missingProjects |-> <<>>,
     fontSwapProjects |-> <<>>, unopenedProjects |-> <<>>]

\* the handler of a request that has not arrived
NoRequest ==
    [state |-> "none", urls |-> <<>>, timer |-> "none", timedOut |-> FALSE,
     exit |-> [k \in Instances |-> "absent"], exitCalled |-> {}, result |-> NoResult]

\* the instances of request r whose runBatch has returned
Returned(r) == { k \in Instances : req[r].exit[k] = "noop" }

\* the server process after start-up, built with the handler v
Started(v) ==
    /\ variant = v
    /\ activeChromeInstances = 0
    /\ pipe = [r \in Requests |-> [k \in Instances |-> AbsentPipeline]]
    /\ isRunning = FALSE
    /\ crashed = FALSE
    /\ arrived = 0
    /\ received = [r \in Requests |-> <<>>]
    /\ req = [r \in Requests |-> NoRequest]
    /\ replies = [r \in Requests |-> NoReply]
    /\ fontsCsv = <<>>
    /\ transparencyCsv = <<>>

Init == Started("sharded")

\* the reactions without the continuation of runBatch: a disarming that waits
\* for a turn of its own, like a timer callback
ReactionPendingButRunBatch ==
    \E r \in Requests :
        \/ \E k \in Instances : \E i \in 1..Len(pipe[r][k].chain) : pipe[r][k].chain[i] = "final"
        \/ /\ variant = "sharded"
           /\ req[r].state = "running" /\ Returned(r) = InstanceIDs(req[r].urls)
        \/ /\ variant \in {"capacity", "single"}
           /\ req[r].state = "running"
           /\ pipe[r][1].resolved

\* a promise reaction is queued and runs before any timer or request callback:
\* the last handler of a fetch chain, the continuation of runBatch, the
\* continuation of the handler
ReactionPending ==
    \E r \in Requests :
        \/ \E k \in Instances : \E i \in 1..Len(pipe[r][k].chain) : pipe[r][k].chain[i] = "final"
        \/ /\ variant = "sharded"
           /\ \/ \E k \in Instances : pipe[r][k].resolved /\ req[r].exit[k] = "unset"
              \/ req[r].state = "running" /\ Returned(r) = InstanceIDs(req[r].urls)
        \/ /\ variant \in {"capacity", "single"}
           /\ req[r].state = "running"
           /\ pipe[r][1].resolved

\* ------------------------------------------------- actions of a pipeline

\* lines 24-45 succeed: the executor runs and arms the five start timers
LaunchOk(r, k) ==
    /\ ~crashed
    /\ pipe[r][k].phase = "launching"
    /\ pipe' = [pipe EXCEPT ![r][k] = StartedPipeline(@)]
    /\ UNCHANGED endpointVars

\* lines 70-72: the next of the staggered setTimeout(preloadNextURL, i * 200).
\* With an empty queue the callback returns at line 75 and changes nothing
\* (a stuttering step); the queue never grows again.
StartTimer(r, k) ==
    /\ ~crashed
    /\ ~ReactionPending
    /\ pipe[r][k].phase = "running"
    /\ pipe[r][k].timersFired < inParallel
    /\ pipe[r][k].queuedProjects # <<>>
    /\ pipe' = [pipe EXCEPT ![r][k] = PreloadNextURL([@ EXCEPT !.timersFired = @ + 1])]
    /\ UNCHANGED endpointVars

\* a page that does not ask again: the first failure rejects the fetch
FetchRetryGivesUp(r, k, id) ==
    /\ ~crashed
    /\ id \in 1..Len(pipe[r][k].chain)
    /\ pipe[r][k].chain[id] = "net1"
    /\ pipe' = [pipe EXCEPT ![r][k] = PreloadCatch(@, id, "fetch error 1", 1)]
    /\ UNCHANGED endpointVars

\* lines 91-95: the first request fails and the page asks once more
FetchRetry(r, k, id) ==
    /\ ~crashed
    /\ id \in 1..Len(pipe[r][k].chain)
    /\ pipe[r][k].chain[id] = "net1"
    /\ pipe' = [pipe EXCEPT ![r][k].chain[id] = "net2"]
    /\ UNCHANGED endpointVars

\* lines 92, 96 and 101-111: a request succeeds, the success handler runs
FetchResolved(r, k, id) ==
    /\ ~crashed
    /\ id \in 1..Len(pipe[r][k].chain)
    /\ pipe[r][k].chain[id] \in {"net1", "net2"}
    /\ pipe' = [pipe EXCEPT ![r][k] =
                   PreloadThen(@, id, 1, IF @.chain[id] = "net1" THEN 1 ELSE 2)]
    /\ UNCHANGED endpointVars

\* lines 97 and 112-121: the second request fails, the failure handler runs
FetchRejected(r, k, id) ==
    /\ ~crashed
    /\ id \in 1..Len(pipe[r][k].chain)
    /\ pipe[r][k].chain[id] = "net2"
    /\ pipe' = [pipe EXCEPT ![r][k] = PreloadCatch(@, id, "fetch error 2", 2)]
    /\ UNCHANGED endpointVars

\* lines 122-133
FetchFinally(r, k, id) ==
    /\ ~crashed
    /\ id \in 1..Len(pipe[r][k].chain)
    /\ pipe[r][k].chain[id] = "final"
    /\ pipe' = [pipe EXCEPT ![r][k] = PreloadFinally(@, id)]
    /\ UNCHANGED endpointVars

\* lines 199-234: an outstanding openProjectAndGenerateThumbnail call ends
RenderSettled(r, k) ==
    /\ ~crashed
    /\ \E n \in 1..Len(pipe[r][k].opening) :
         \E result \in RenderResults(pipe[r][k].opening[n]) :
            pipe' = [pipe EXCEPT ![r][k] = OpenProjectSettled(@, n, result)]
    /\ UNCHANGED endpointVars

\* lines 153-186: context.close() and browser.close() are done
CloseDone(r, k) ==
    /\ ~crashed
    /\ pipe[r][k].closing > 0
    /\ pipe' = [pipe EXCEPT ![r][k] = ResolveQueue(@)]
    /\ UNCHANGED endpointVars

PipelineStep(r, k) ==
    \/ LaunchOk(r, k)
    \/ StartTimer(r, k)
    \/ \E id \in 1..Len(pipe[r][k].chain) : FetchRetry(r, k, id)
    \/ \E id \in 1..Len(pipe[r][k].chain) : FetchResolved(r, k, id)
    \/ \E id \in 1..Len(pipe[r][k].chain) : FetchRejected(r, k, id)
    \/ \E id \in 1..Len(pipe[r][k].chain) : FetchFinally(r, k, id)
    \/ RenderSettled(r, k)
    \/ CloseDone(r, k)

\* ------------------------------------------- the pipeline called directly
\* extractData(urlsToProcess, thumbnailFolder, log) as a caller with one
\* session per request calls it: one pipeline, in slot (1, 1).

\* the i-th element of the bounded input lists; the first two share a URL
InputItem(i) ==
    [url |-> <<(IF ((i - 1) \div 2) % 2 = 0 THEN "a" ELSE "b"), DotBfd>>,
     isThumbTransparent |-> CASE i % 3 = 1 -> Undefined
                              [] i % 3 = 2 -> "true"
                              [] OTHER -> "false"]

PipelineInputs == { [i \in 1..n |-> InputItem(i)] : n \in 0..MaxItems }

\* src/extract-data.js line 8: the call runs up to its first await
CallExtractData(urls) ==
    /\ ~crashed
    /\ pipe[1][1].phase = "absent"
    /\ pipe' = [pipe EXCEPT ![1][1] = LaunchingPipeline(urls)]
    /\ UNCHANGED endpointVars

\* lines 24-45 throw: the promise of the call is rejected
LaunchFailsAlone ==
    /\ ~crashed
    /\ pipe[1][1].phase = "launching"
    /\ pipe' = [pipe EXCEPT ![1][1].phase = "failed"]
    /\ UNCHANGED endpointVars

NextPipeline ==
    \/ \E urls \in PipelineInputs : CallExtractData(urls)
    \/ LaunchFailsAlone
    \/ PipelineStep(1, 1)

SpecPipeline == Init /\ [][NextPipeline]_vars

\* the event loop runs every callback that is ready, and every call into the
\* page (the launch, a fetch, a render, a close) settles
SpecPipelineFair == SpecPipeline /\ WF_vars(PipelineStep(1, 1))

\* ------------------------------------------- the pipeline and its watchdogs
\* a fetch that is slow enough lets the 15 s timer of its project fire; the
\* log lines of a project are counted up to MaxLongLoadReports

\* lines 136-139: the armed timer of the project id fires
WatchdogTick(r, k, id) ==
    /\ ~crashed
    /\ ~ReactionPending
    /\ id \in 1..Len(pipe[r][k].watchdog)
    /\ pipe[r][k].watchdog[id] = "armed"
    /\ pipe[r][k].longLoadReports[id] < MaxLongLoadReports
    /\ pipe' = [pipe EXCEPT ![r][k] = ReportLongLoadTime(@, id)]
    /\ UNCHANGED endpointVars

NextWatchdog ==
    \/ \E urls \in PipelineInputs : CallExtractData(urls)
    \/ LaunchFailsAlone
    \/ PipelineStep(1, 1)
    \/ \E id \in 1..Len(pipe[1][1].watchdog) : WatchdogTick(1, 1, id)

SpecWatchdog == Init /\ [][NextWatchdog]_vars

\* The prefetch stage with more items than it may fetch at once, on a page
\* whose every request fails: the references go from the queue through
\* loadingProjects to missingProjects, and no project is ever opened.
PrefetchItems == inParallel + 1

NextPrefetch ==
    \/ CallExtractData([i \in 1..PrefetchItems |-> InputItem(i)])
    \/ LaunchOk(1, 1)
    \/ StartTimer(1, 1)
    \/ \E id \in 1..Len(pipe[1][1].chain) : FetchRetry(1, 1, id)
    \/ \E id \in 1..Len(pipe[1][1].chain) : FetchRejected(1, 1, id)
    \/ \E id \in 1..Len(pipe[1][1].chain) : FetchFinally(1, 1, id)
    \/ CloseDone(1, 1)

SpecPrefetch == Init /\ [][NextPrefetch]_vars

\* -------------------------------------- the sharded POST /extract/ handler
\* src/unnamed/part_000 lines 105-248.

\* lines 201-206: the four lists concatenated in instance order
CombinedResults(r) ==
    LET ids == InstanceIDs(req[r].urls)
        all(bucket) ==
            Concat([k \in 1..Cardinality(ids) |-> pipe[r][k].result[bucket]])
    IN  [timedOutPrefix |-> FALSE,
         openedProjects |-> all("openedProjects"),
         missingProjects |-> all("missingProjects"),
         fontSwapProjects |-> all("fontSwapProjects"),
         unopenedProjects |-> all("unopenedProjects")]

\* a font list that keeps one entry per font
FontsOfDeduplicated(projects) ==
    RemoveDuplicates(Concat([i \in 1..Len(projects) |-> projects[i].fontsToSwap]))

\* lines 227-230: fonts = [...fonts, ...fontsToSwap] over the font-swap list
FontsOf(projects) == Concat([i \in 1..Len(projects) |-> projects[i].fontsToSwap])

\* lines 236-243: the thumbnail URLs of the mismatching opened projects
MismatchesOf(projects) ==
    LET hits == SelectSeq(projects, LAMBDA p : p.transparencyMismatch = "true")
    IN  [i \in 1..Len(hits) |-> hits[i].thumbURL]

\* line 242: delete project.transparencyMismatch
DeleteMismatch(projects) ==
    [i \in 1..Len(projects) |-> [projects[i] EXCEPT !.transparencyMismatch = Undefined]]

\* lines 107-113
RejectAlreadyRunning(r) ==
    /\ replies' = [replies EXCEPT ![r] =
                      [NoReply EXCEPT !.status = 503, !.error = "Already running, please wait."]]
    /\ UNCHANGED <<pipe, isRunning, req, fontsCsv, transparencyCsv>>

\* lines 116-121
RejectTooManyURLs(r) ==
    /\ replies' = [replies EXCEPT ![r] =
                      [NoReply EXCEPT !.status = 400, !.error = "Too many URLs."]]
    /\ UNCHANGED <<pipe, isRunning, req, fontsCsv, transparencyCsv>>

\* The closures of a request whose handler has returned and whose pipelines
\* have no callback left are unreachable; they are collected when the next
\* batch is admitted.
Quiescent(P) ==
    /\ P.phase \in {"absent", "running"}
    /\ P.closing = 0
    /\ P.opening = <<>>
    /\ \A i \in 1..Len(P.chain) : P.chain[i] = "done"

Collectable(r) ==
    /\ req[r].state = "done"
    /\ \A k \in Instances : Quiescent(pipe[r][k])

\* an admission that leaves the flag alone
SetIsRunningSkipped == UNCHANGED isRunning

\* line 123: isRunning = true
SetIsRunning == isRunning' = TRUE

\* lines 123-197: the flag is taken, the list validated and partitioned, the
\* deadline armed and runBatch called for every instance, each call running
\* into extractData up to its first await
AdmitBatch(r, rawUrls) ==
    LET urls == ValidateURLs(rawUrls)
        ids == InstanceIDs(urls)
        admitted == [state |-> "running", urls |-> urls, timer |-> "armed",
                     timedOut |-> FALSE,
                     exit |-> [k \in Instances |-> IF k \in ids THEN "unset" ELSE "absent"],
                     exitCalled |-> {},
                     result |-> NoResult]
        started == [k \in Instances |->
                      IF k \in ids THEN LaunchingPipeline(UrlsInBatch(urls, k - 1))
                      ELSE AbsentPipeline]
    IN  /\ SetIsRunning
        /\ req' = [q \in Requests |->
                     IF q = r THEN admitted
                     ELSE IF Collectable(q) THEN [NoRequest EXCEPT !.state = "collected"]
                     ELSE req[q]]
        /\ pipe' = [q \in Requests |->
                      IF q = r THEN started
                      ELSE IF Collectable(q) THEN [k \in Instances |-> AbsentPipeline]
                      ELSE pipe[q]]
        /\ UNCHANGED <<replies, fontsCsv, transparencyCsv>>

\* lines 105-197: the synchronous part of the handler.  A request is handed
\* to the handler in a job of its own, after every pending promise reaction
Request(rawUrls) ==
    /\ variant = "sharded"
    /\ ~crashed
    /\ ~ReactionPending
    /\ arrived < MaxRequests
    /\ arrived' = arrived + 1
    /\ received' = [received EXCEPT ![arrived + 1] = rawUrls]
    /\ UNCHANGED <<variant, activeChromeInstances, crashed>>
    /\ LET r == arrived + 1
       IN  IF isRunning THEN RejectAlreadyRunning(r)
           ELSE IF TooManyURLs(rawUrls) THEN RejectTooManyURLs(r)
           ELSE AdmitBatch(r, rawUrls)

\* lines 24-45 throw in instance k: extractData rejects, so runBatch does, so
\* Promise.all does, so the handler does (the framework answers 500); the
\* other instances run on and the deadline stays armed
LaunchFails(r, k) ==
    /\ ~crashed
    /\ pipe[r][k].phase = "launching"
    /\ pipe' = [pipe EXCEPT ![r][k].phase = "failed"]
    /\ IF req[r].state = "running"
       THEN /\ req' = [req EXCEPT ![r].state = "threw"]
            /\ replies' = [replies EXCEPT ![r] =
                              [NoReply EXCEPT !.status = 500, !.error = "launch failed"]]
       ELSE UNCHANGED <<req, replies>>
    /\ UNCHANGED <<variant, isRunning, activeChromeInstances, crashed, arrived, received,
                   fontsCsv, transparencyCsv>>

\* lines 178-183: extractData resolved, runBatch disarms its termination
RunBatchReturns(r, k) ==
    /\ variant = "sharded"
    /\ ~crashed
    /\ req[r].state \in {"running", "threw"}
    /\ req[r].exit[k] = "unset"
    /\ pipe[r][k].resolved
    /\ req' = [req EXCEPT ![r].exit[k] = "noop"]
    /\ UNCHANGED <<variant, pipe, isRunning, activeChromeInstances, crashed, arrived, received,
                   replies, fontsCsv, transparencyCsv>>

\* line 191: the instances whose termination.exit() is called and returns.
\* forEach visits the objects in creation order and the first one that still
\* has no exit throws a TypeError, which ends the loop
ExitCalls(r) ==
    { k \in InstanceIDs(req[r].urls) :
        \A j \in InstanceIDs(req[r].urls) : j <= k => req[r].exit[j] = "noop" }

\* lines 188-192: the deadline fires.  termination.exit() is called for every
\* instance in creation order; an instance whose object still has no exit
\* makes the call throw a TypeError out of the timer callback
DeadlineFires(r) ==
    /\ variant = "sharded"
    /\ ~crashed
    /\ ~ReactionPending
    /\ req[r].timer = "armed"
    /\ req' = [req EXCEPT ![r].timer = "fired", ![r].timedOut = TRUE,
                          ![r].exitCalled = ExitCalls(r)]
    /\ crashed' = (\E k \in Instances : req[r].exit[k] = "unset")
    /\ UNCHANGED <<variant, pipe, isRunning, activeChromeInstances, arrived, received, replies,
                   fontsCsv, transparencyCsv>>

\* lines 200-247: every runBatch has returned.  The two appendFileSync calls
\* can throw; a throw ends the handler there (the framework answers 500)
BatchSettled(r, fontsWriteFails, mismatchWriteFails) ==
    LET result == [CombinedResults(r) EXCEPT !.timedOutPrefix = req[r].timedOut]
        fonts == FontsOf(result.fontSwapProjects)
        transparencyMismatches == MismatchesOf(result.openedProjects)
        fontsThrow == fonts # <<>> /\ fontsWriteFails
        mismatchThrow == transparencyMismatches # <<>> /\ mismatchWriteFails
        timer == IF req[r].timer = "armed" THEN "cleared" ELSE req[r].timer
    IN  /\ variant = "sharded"
        /\ ~crashed
        /\ req[r].state = "running"
        /\ Returned(r) = InstanceIDs(req[r].urls)
        /\ fontsCsv' = IF fontsThrow THEN fontsCsv ELSE fontsCsv \o fonts
        /\ transparencyCsv' = IF fontsThrow \/ mismatchThrow THEN transparencyCsv
                              ELSE transparencyCsv \o transparencyMismatches
        /\ IF fontsThrow \/ mismatchThrow
           THEN /\ req' = [req EXCEPT ![r].state = "threw", ![r].timer = timer]
                /\ replies' = [replies EXCEPT ![r] =
                                  [NoReply EXCEPT !.status = 500, !.error = "append failed"]]
                /\ UNCHANGED isRunning
           ELSE /\ req' = [req EXCEPT ![r].state = "done", ![r].timer = timer,
                                       ![r].result = [result EXCEPT !.openedProjects = DeleteMismatch(@)]]
                /\ replies' = [replies EXCEPT ![r] = [status |-> 200, error |-> ""]]
                /\ isRunning' = FALSE
        /\ UNCHANGED <<variant, pipe, activeChromeInstances, crashed, arrived, received>>


\* ------------------------------------ the counting POST /extract/ handler
\* src/endpoints/extract.js lines 94-190: one session per request, at most
\* maxChromeInstances of them at a time.  maxChromeInstances and maxBatchSize
\* have the values of part_000 (lines 8 and 9).

\* the size check made on the raw list, line 106
TooManyURLsForOne(rawUrls) == Len(rawUrls) > maxBatchSize

\* lines 96-102
RejectTooManyInstances(r) ==
    /\ replies' = [replies EXCEPT ![r] =
                      [NoReply EXCEPT !.status = 503,
                                      !.error = "Too many active Chrome instances."]]
    /\ UNCHANGED <<pipe, activeChromeInstances, req, fontsCsv, transparencyCsv>>

\* a size check made after the counter is raised: the rejection keeps the count
RejectTooManyURLsForOneCounted(r) ==
    /\ replies' = [replies EXCEPT ![r] =
                      [NoReply EXCEPT !.status = 400, !.error = "Too many URLs."]]
    /\ activeChromeInstances' = activeChromeInstances + 1
    /\ UNCHANGED <<pipe, req, fontsCsv, transparencyCsv>>

\* lines 106-110
RejectTooManyURLsForOne(r) ==
    /\ replies' = [replies EXCEPT ![r] =
                      [NoReply EXCEPT !.status = 400, !.error = "Too many URLs."]]
    /\ UNCHANGED <<pipe, activeChromeInstances, req, fontsCsv, transparencyCsv>>

\* lines 112-162: the list is validated, the counter raised, the deadline
\* armed and extractData called, which runs up to its first await
AdmitOne(r, rawUrls) ==
    LET urls == ValidateURLs(rawUrls)
        admitted == [state |-> "running", urls |-> urls, timer |-> "armed",
                     timedOut |-> FALSE,
                     exit |-> [k \in Instances |-> IF k = 1 THEN "unset" ELSE "absent"],
                     exitCalled |-> {},
                     result |-> NoResult]
        started == [k \in Instances |->
                      IF k = 1 THEN LaunchingPipeline(urls) ELSE AbsentPipeline]
    IN  /\ activeChromeInstances' = activeChromeInstances + 1
        /\ req' = [q \in Requests |->
                     IF q = r THEN admitted
                     ELSE IF Collectable(q) THEN [NoRequest EXCEPT !.state = "collected"]
                     ELSE req[q]]
        /\ pipe' = [q \in Requests |->
                      IF q = r THEN started
                      ELSE IF Collectable(q) THEN [k \in Instances |-> AbsentPipeline]
                      ELSE pipe[q]]
        /\ UNCHANGED <<replies, fontsCsv, transparencyCsv>>

\* lines 94-162: the synchronous part of the handler
CapacityRequest(rawUrls) ==
    /\ variant = "capacity"
    /\ ~crashed
    /\ ~ReactionPending
    /\ arrived < MaxCapacityRequests
    /\ arrived' = arrived + 1
    /\ received' = [received EXCEPT ![arrived + 1] = rawUrls]
    /\ UNCHANGED <<variant, isRunning, crashed>>
    /\ LET r == arrived + 1
       IN  IF activeChromeInstances >= maxChromeInstances THEN RejectTooManyInstances(r)
           ELSE IF TooManyURLsForOne(rawUrls) THEN RejectTooManyURLsForOne(r)
           ELSE AdmitOne(r, rawUrls)

\* a timer callback whose forceTerminate.exit() call returns without doing
\* anything: the counter is lowered while the session goes on
TimeoutFiresLoweringCounter(r) ==
    /\ variant = "capacity"
    /\ ~crashed
    /\ ~ReactionPending
    /\ req[r].timer = "armed"
    /\ req' = [req EXCEPT ![r].timer = "fired", ![r].timedOut = TRUE]
    /\ replies' = [replies EXCEPT ![r] =
                      IF @.status = 0 THEN [status |-> 503, error |-> "Timed out"] ELSE @]
    /\ activeChromeInstances' = activeChromeInstances - 1
    /\ UNCHANGED <<variant, pipe, isRunning, crashed, arrived, received,
                   fontsCsv, transparencyCsv>>

\* lines 151-160: the deadline fires.  The reply is sent, then
\* forceTerminate.exit() is called on an object that has no exit: the
\* TypeError leaves the timer callback before the counter is lowered
TimeoutFires(r) ==
    /\ variant = "capacity"
    /\ ~crashed
    /\ ~ReactionPending
    /\ req[r].timer = "armed"
    /\ req' = [req EXCEPT ![r].timer = "fired", ![r].timedOut = TRUE]
    /\ replies' = [replies EXCEPT ![r] =
                      IF @.status = 0 THEN [status |-> 503, error |-> "Timed out"] ELSE @]
    /\ crashed' = TRUE
    /\ UNCHANGED <<variant, pipe, isRunning, activeChromeInstances, arrived, received,
                   fontsCsv, transparencyCsv>>

\* lines 162-189: extractData resolved.  The counter is lowered and the timer
\* cleared before the two appendFileSync calls, which can throw
ExtractSettled(r, fontsWriteFails, mismatchWriteFails) ==
    LET result == [timedOutPrefix |-> FALSE,
                   openedProjects |-> pipe[r][1].result.openedProjects,
                   missingProjects |-> pipe[r][1].result.missingProjects,
                   fontSwapProjects |-> pipe[r][1].result.fontSwapProjects,
                   unopenedProjects |-> pipe[r][1].result.unopenedProjects]
        fonts == FontsOf(result.fontSwapProjects)
        transparencyMismatches == MismatchesOf(result.openedProjects)
        fontsThrow == fonts # <<>> /\ fontsWriteFails
        mismatchThrow == transparencyMismatches # <<>> /\ mismatchWriteFails
    IN  /\ variant = "capacity"
        /\ ~crashed
        /\ req[r].state = "running"
        /\ pipe[r][1].resolved
        /\ IF req[r].timedOut
           THEN /\ req' = [req EXCEPT ![r].state = "done"]
                /\ UNCHANGED <<activeChromeInstances, replies, fontsCsv, transparencyCsv>>
           ELSE /\ activeChromeInstances' = activeChromeInstances - 1
                /\ fontsCsv' = IF fontsThrow THEN fontsCsv ELSE fontsCsv \o fonts
                /\ transparencyCsv' = IF fontsThrow \/ mismatchThrow THEN transparencyCsv
                                      ELSE transparencyCsv \o transparencyMismatches
                /\ IF fontsThrow \/ mismatchThrow
                   THEN /\ req' = [req EXCEPT ![r].state = "threw", ![r].timer = "cleared"]
                        /\ replies' = [replies EXCEPT ![r] =
                                          [NoReply EXCEPT !.status = 500, !.error = "append failed"]]
                   ELSE /\ req' = [req EXCEPT ![r].state = "done", ![r].timer = "cleared",
                                               ![r].result = [result EXCEPT !.openedProjects = DeleteMismatch(@)]]
                        /\ replies' = [replies EXCEPT ![r] = [status |-> 200, error |-> ""]]
        /\ UNCHANGED <<variant, pipe, isRunning, crashed, arrived, received>>

\* ---------------------------------------------------------- specification

\* the raw references requests are built from
RawURLs ==
    { <<"a", DotBfd>>, <<"a", DotBfd, ThumbPng>>, <<"a", DotBfd, ThumbJpg>>,
      <<"b", DotBfd>>, <<"a", ".xyz">> }

\* the two thumbnails of one design, an invalid reference, the first
\* thumbnail again: two instances of one project each, both with a hint
TwoProjects ==
    << <<"a", DotBfd, ThumbPng>>, <<"a", DotBfd, ThumbJpg>>, <<"a", ".xyz">>,
       <<"a", DotBfd, ThumbPng>> >>

\* n copies of one reference
Repeat(u, n) == [i \in 1..n |-> u]

\* a list one longer than the size limit
OverLimit == Repeat(<<"a", DotBfd>>, maxChromeInstances * maxBatchSize + 1)

\* the requests the running system is driven with
RawInputs == {<<>>, TwoProjects, OverLimit}

Next ==
    \/ \E rawUrls \in RawInputs : Request(rawUrls)
    \/ \E r \in Requests, k \in Instances :
          \/ PipelineStep(r, k)
          \/ LaunchFails(r, k)
          \/ RunBatchReturns(r, k)
    \/ \E r \in Requests : DeadlineFires(r)
    \/ \E r \in Requests, f, m \in BOOLEAN : BatchSettled(r, f, m)

Spec == Init /\ [][Next]_vars

\* the requests the counting endpoint is driven with: a list one longer than
\* the size limit, a list with no valid reference (its session is given
\* nothing to do) and, for the first MaxBusySessions requests, one thumbnail
CapacityInputs(n) ==
    { Repeat(<<"a", DotBfd>>, maxBatchSize + 1), << <<"a", ".xyz">> >> }
      \cup (IF n <= MaxBusySessions THEN { << <<"a", DotBfd, ThumbPng>> >> } ELSE {})

NextCapacity ==
    \/ \E rawUrls \in CapacityInputs(arrived + 1) : CapacityRequest(rawUrls)
    \/ \E r \in Requests :
          \/ PipelineStep(r, 1)
          \/ LaunchFails(r, 1)
          \/ TimeoutFires(r)
    \/ \E r \in Requests, f, m \in BOOLEAN : ExtractSettled(r, f, m)

SpecCapacity == Started("capacity") /\ [][NextCapacity]_vars

\* either build of the server; every handler tests the build it belongs to
NextServers == Next \/ NextCapacity

SpecServers ==
    (\E v \in {"sharded", "capacity"} : Started(v)) /\ [][NextServers]_vars

\* --------------------------- the earlier POST /extract/ handler, one session
\* src/unnamed/part_002 lines 93-142: the counter and the size check of the
\* counting handler, no validation, no deadline.  part_001 lines 90-127 is
\* the same handler without the log file.

\* an element of request.body.urls as the pipeline holds it: the reference
\* itself, with no transparency hint
SingleItem(rawUrl) == [url |-> rawUrl, isThumbTransparent |-> Undefined]

\* lines 111-130: the duplicates are removed from the local `urls` (line 112),
\* the counter is raised, and extractData is called with request.body.urls
\* (line 130), the list as it was received
AdmitSingle(r, rawUrls) ==
    LET urls == RemoveDuplicates(rawUrls)
        admitted == [state |-> "running",
                     urls |-> [i \in 1..Len(urls) |-> SingleItem(urls[i])],
                     timer |-> "none", timedOut |-> FALSE,
                     exit |-> [k \in Instances |-> "absent"],
                     exitCalled |-> {},
                     result |-> NoResult]
        started == [k \in Instances |->
                      IF k = 1
                      THEN LaunchingPipeline([i \in 1..Len(rawUrls) |-> SingleItem(rawUrls[i])])
                      ELSE AbsentPipeline]
    IN  /\ activeChromeInstances' = activeChromeInstances + 1
        /\ req' = [q \in Requests |->
                     IF q = r THEN admitted
                     ELSE IF Collectable(q) THEN [NoRequest EXCEPT !.state = "collected"]
                     ELSE req[q]]
        /\ pipe' = [q \in Requests |->
                      IF q = r THEN started
                      ELSE IF Collectable(q) THEN [k \in Instances |-> AbsentPipeline]
                      ELSE pipe[q]]
        /\ UNCHANGED <<replies, fontsCsv, transparencyCsv>>

\* lines 93-130: the synchronous part of the handler
SingleRequest(rawUrls) ==
    /\ variant = "single"
    /\ ~crashed
    /\ ~ReactionPending
    /\ arrived < MaxRequests
    /\ arrived' = arrived + 1
    /\ received' = [received EXCEPT ![arrived + 1] = rawUrls]
    /\ UNCHANGED <<variant, isRunning, crashed>>
    /\ LET r == arrived + 1
       IN  IF activeChromeInstances >= maxChromeInstances THEN RejectTooManyInstances(r)
           ELSE IF TooManyURLsForOne(rawUrls) THEN RejectTooManyURLsForOne(r)
           ELSE AdmitSingle(r, rawUrls)

\* lines 130-141: extractData resolved.  The counter is lowered, the fonts are
\* appended to the log (the call can throw) and the result is sent
SingleSettled(r, fontsWriteFails) ==
    LET result == [timedOutPrefix |-> FALSE,
                   openedProjects |-> pipe[r][1].result.openedProjects,
                   missingProjects |-> pipe[r][1].result.missingProjects,
                   fontSwapProjects |-> pipe[r][1].result.fontSwapProjects,
                   unopenedProjects |-> pipe[r][1].result.unopenedProjects]
        fonts == FontsOf(result.fontSwapProjects)
        fontsThrow == fonts # <<>> /\ fontsWriteFails
    IN  /\ variant = "single"
        /\ ~crashed
        /\ req[r].state = "running"
        /\ pipe[r][1].resolved
        /\ activeChromeInstances' = activeChromeInstances - 1
        /\ fontsCsv' = IF fontsThrow THEN fontsCsv ELSE fontsCsv \o fonts
        /\ IF fontsThrow
           THEN /\ req' = [req EXCEPT ![r].state = "threw"]
                /\ replies' = [replies EXCEPT ![r] =
                                  [NoReply EXCEPT !.status = 500, !.error = "append failed"]]
           ELSE /\ req' = [req EXCEPT ![r].state = "done", ![r].result = result]
                /\ replies' = [replies EXCEPT ![r] = [status |-> 200, error |-> ""]]
        /\ UNCHANGED <<variant, pipe, isRunning, crashed, arrived, received, transparencyCsv>>

\* the requests the earlier handler is driven with: a list one longer than
\* the size limit, an empty list and, for the first MaxBusySessions
\* requests, the list [A, A, B]
SingleInputs(n) ==
    { Repeat(<<"a", DotBfd>>, maxBatchSize + 1), <<>> }
      \cup (IF n <= MaxBusySessions
            THEN { << <<"a", DotBfd>>, <<"a", DotBfd>>, <<"b", DotBfd>> >> }
            ELSE {})

NextSingle ==
    \/ \E rawUrls \in SingleInputs(arrived + 1) : SingleRequest(rawUrls)
    \/ \E r \in Requests :
          \/ PipelineStep(r, 1)
          \/ LaunchFails(r, 1)
    \/ \E r \in Requests, f \in BOOLEAN : SingleSettled(r, f)

SpecSingle == Started("single") /\ [][NextSingle]_vars

\* ------------------------------------------------ admission on its own
\* The handler's synchronous part applied, in the initial state, to every
\* short raw list and to the lists around the size limit; no pipeline runs.

RECURSIVE SeqsUpTo(_, _)
SeqsUpTo(S, n) ==
    IF n = 0 THEN {<<>>}
    ELSE LET shorter == SeqsUpTo(S, n - 1)
         IN  shorter \cup { Append(q, x) : q \in shorter, x \in S }

AtLimit == Repeat(<<"a", DotBfd>>, maxChromeInstances * maxBatchSize)

\* n design references, no two the same: "1.bfd", "2.bfd", ...
DistinctURLs(n) == [i \in 1..n |-> <<ToString(i), DotBfd>>]

\* a thumbnail reference in which the thumbnail suffix occurs twice, such as
\* "a.bfd_thumb.png.bfd_thumb.png"
TwiceSuffixed(atom) == <<"a", DotBfd, atom, DotBfd, atom>>

AdmitInputs ==
    SeqsUpTo(RawURLs, MaxRawLen)
      \cup {AtLimit, OverLimit, Append(AtLimit, <<"b", DotBfd>>),
            SubSeq(AtLimit, 1, Len(AtLimit) - 1) \o <<<<"a", DotBfd, ThumbPng>>>>}
      \cup { <<TwiceSuffixed(atom)>> : atom \in {ThumbPng, ThumbJpg} }
      \cup { DistinctURLs(n) : n \in 0..(maxChromeInstances * maxBatchSize) }

FirstRequest(rawUrls) == arrived = 0 /\ Request(rawUrls)

NextAdmit == \E rawUrls \in AdmitInputs : FirstRequest(rawUrls)

SpecAdmit == Init /\ [][NextAdmit]_vars

\* ------------------------------------------------------------ properties

\* the four bucket sizes of a report, summed
BucketTotal(R) ==
    Len(R.openedProjects) + Len(R.fontSwapProjects)
      + Len(R.missingProjects) + Len(R.unopenedProjects)

\* the distinct design references a raw list names, once normalised
DesignsOf(rawUrls) ==
    { ConvertURL(rawUrls[i]).url :
        i \in { j \in 1..Len(rawUrls) : ConvertURL(rawUrls[j]) # JsFalse } }

\* how often the project with identity id occurs in the list s
Count(s, id) == Cardinality({ i \in 1..Len(s) : s[i].id = id })

\* how often it occurs in the pipeline P, over every place a project can be
Occurrences(P, id) ==
    Count(P.queuedProjects, id) + Count(P.loadingProjects, id)
      + Count(P.preloadedProjects, id) + Count(P.opening, id)
      + Count(P.openedProjects, id) + Count(P.fontSwapProjects, id)
      + Count(P.missingProjects, id) + Count(P.unopenedProjects, id)

\* the projects of P that have reached a bucket
Finished(P) ==
    P.openedProjects \o P.fontSwapProjects \o P.missingProjects \o P.unopenedProjects

\* the page asked twice for p and the second request succeeded (every blob
\* of the model has a size of 1 KB)
SecondFetchSucceeded(p) == p.attempts = 2 /\ p.sizeInKB # 0

\* the page asked twice for p and both requests failed
BothFetchesFailed(p) == p.attempts = 2 /\ p.sizeInKB = 0

\* C1: when a pipeline returns by normal completion its four bucket sizes sum
\* to the number of references it was given; and the report of a batch whose
\* deadline did not fire has four bucket sizes that sum to the number of
\* normalised, de-duplicated, valid references of the request.
C1_BucketsSumToReferences ==
    /\ \A r \in Requests, k \in Instances :
          pipe[r][k].resolved
            => BucketTotal(pipe[r][k].result) = Len(pipe[r][k].urlsToProcess)
    /\ \A r \in Requests :
          req[r].state = "done" /\ ~req[r].timedOut
            => BucketTotal(req[r].result) = Cardinality(DesignsOf(received[r]))

\* C2: in every state of a pipeline every project is in exactly one place:
\* the pending queue, the in-flight set, the ready set, the render stage or
\* one of the four buckets; never in two buckets, never twice in one.
C2_ExactlyOnePlace ==
    \A r \in Requests, k \in Instances :
        pipe[r][k].phase = "running"
          => \A id \in 1..Len(pipe[r][k].urlsToProcess) : Occurrences(pipe[r][k], id) = 1

\* one project has reached a bucket through the render stage while the other
\* is being rendered
C2_Witness ==
    /\ Len(pipe[1][1].urlsToProcess) = 2
    /\ Len(pipe[1][1].opening) = 1
    /\ Len(pipe[1][1].openedProjects) + Len(pipe[1][1].fontSwapProjects)
         + Len(pipe[1][1].unopenedProjects) = 1

\* C3: within one session at most one openProjectAndGenerateThumbnail call is
\* outstanding at any instant, however fetch and render completions interleave.
C3_OneRenderOutstanding ==
    \A r \in Requests, k \in Instances :
        /\ Len(pipe[r][k].opening) <= 1
        /\ pipe[r][k].isOpeningProject <=> Len(pipe[r][k].opening) = 1

\* a second fetch completed, and its last handler ran, while a project was
\* being rendered: the ready project waits
C3_Witness ==
    /\ Len(pipe[1][1].opening) = 1
    /\ Len(pipe[1][1].preloadedProjects) = 1
    /\ \A i \in 1..Len(pipe[1][1].chain) : pipe[1][1].chain[i] = "done"

\* C4: every session is closed exactly once: never twice, and at least once
\* when its pipeline has returned.
C4_ReleasedExactlyOnce ==
    \A r \in Requests, k \in Instances :
        /\ pipe[r][k].closeCalls <= 1
        /\ pipe[r][k].resolved => pipe[r][k].closeCalls >= 1

\* C5, as stated: when a pipeline has returned, a project whose second fetch
\* succeeded is in Opened or FontSwap, and a project whose fetch failed twice
\* is in Missing with the second error.
C5_RetryEndsOpenedOrFontSwap ==
    \A r \in Requests, k \in Instances :
        pipe[r][k].resolved =>
            \A i \in 1..Len(Finished(pipe[r][k])) :
                LET p == Finished(pipe[r][k])[i]
                IN  /\ SecondFetchSucceeded(p)
                          => p \in Range(pipe[r][k].openedProjects)
                                     \cup Range(pipe[r][k].fontSwapProjects)
                    /\ BothFetchesFailed(p)
                          => p \in Range(pipe[r][k].missingProjects)
                               /\ p.error = "fetch error 2"

\* C5, amended: a project whose second fetch succeeded ends in Opened or
\* FontSwap, or in Unopened with the render's error when its render throws,
\* never in Missing; every project in Missing was requested twice and carries
\* the second request's error; a project whose fetch failed twice ends in
\* Missing.
C5_RetrySemantics ==
    \A r \in Requests, k \in Instances :
        /\ \A i \in 1..Len(pipe[r][k].missingProjects) :
              /\ BothFetchesFailed(pipe[r][k].missingProjects[i])
              /\ pipe[r][k].missingProjects[i].error = "fetch error 2"
        /\ pipe[r][k].resolved =>
              \A i \in 1..Len(Finished(pipe[r][k])) :
                  LET p == Finished(pipe[r][k])[i]
                  IN  /\ SecondFetchSucceeded(p)
                            => \/ p \in Range(pipe[r][k].openedProjects)
                               \/ p \in Range(pipe[r][k].fontSwapProjects)
                               \/ /\ p \in Range(pipe[r][k].unopenedProjects)
                                  /\ p.error = "render error"
                      /\ BothFetchesFailed(p) => p \in Range(pipe[r][k].missingProjects)

\* a returned pipeline with one project whose second fetch succeeded and
\* whose render threw, and one whose fetch failed twice
C5_Witness ==
    /\ pipe[1][1].resolved
    /\ \E i \in 1..Len(pipe[1][1].unopenedProjects) :
          SecondFetchSucceeded(pipe[1][1].unopenedProjects[i])
    /\ \E i \in 1..Len(pipe[1][1].missingProjects) :
          BothFetchesFailed(pipe[1][1].missingProjects[i])

\* C6: at most one batch is in flight at a time, and only one request has
\* sessions that have not returned; a request that arrives while a batch is
\* in flight is answered 'already running' and starts no session.
C6_SingleFlight ==
    [][ /\ Cardinality({ r \in Requests : req'[r].state = "running" }) <= 1
        /\ Cardinality({ r \in Requests :
                           \E k \in Instances :
                               /\ pipe'[r][k].phase \in {"launching", "running"}
                               /\ ~pipe'[r][k].resolved }) <= 1
        /\ \A r \in Requests :
              (arrived = r - 1 /\ arrived' = r /\ \E q \in Requests : req[q].state = "running")
                => /\ replies'[r] = [status |-> 503, error |-> "Already running, please wait."]
                   /\ req' = req
                   /\ pipe' = pipe ]_vars

\* a request was answered 'already running' while the sessions of the batch
\* in flight were prefetching
C6_Witness ==
    \E r, q \in Requests :
        /\ replies[r].status = 503
        /\ req[r] = NoRequest
        /\ req[q].state = "running"
        /\ \E k \in Instances : pipe[q][k].loadingProjects # <<>>

\* C7: once no admitted batch is being handled, the single-flight flag is
\* free, however the batches ended.
C7_FlagReleased ==
    ~crashed /\ (\A r \in Requests : req[r].state # "running") => ~isRunning

\* C8: in either build, a step that refuses a request on arrival (503 for a
\* batch in flight or a full server, 400 for too many URLs) leaves the flag,
\* the counter, every handler closure (timers, shards), every session and
\* both logs as they were.
C8_RejectionsEffectFree ==
    [][ \A r \in Requests :
            (arrived = r - 1 /\ arrived' = r /\ replies'[r].status \in {400, 503})
              => /\ isRunning' = isRunning
                 /\ activeChromeInstances' = activeChromeInstances
                 /\ req' = req
                 /\ pipe' = pipe
                 /\ fontsCsv' = fontsCsv
                 /\ transparencyCsv' = transparencyCsv ]_vars

\* a request was refused for its size, and the flag it left free let the
\* next request in, whose sessions are at work
C8_Witness ==
    \E r, q \in Requests :
        /\ replies[r].status = 400 /\ req[r] = NoRequest
        /\ r < q
        /\ req[q].state = "running"
        /\ \E k \in Instances : pipe[q][k].phase = "running"

\* C9: with no batch in flight a request is refused as too large exactly when
\* its raw list has more than 225 references; a list of exactly 225 is
\* admitted.
C9_TooLargeIffOver225 ==
    \A r \in Requests :
        (r <= arrived /\ replies[r].status # 503)
          => /\ replies[r].status = 400 <=> Len(received[r]) > 225
             /\ Len(received[r]) <= 225 => req[r].state = "running"

\* a raw list of exactly 225 references was admitted
C9_Witness ==
    /\ arrived = 1
    /\ Len(received[1]) = 225
    /\ req[1].state = "running"
    /\ isRunning

\* C10: the validated batch of an admitted request holds no two entries with
\* the same normalised reference; it is the list of first occurrences, each
\* with its own hint, in the order of the request.
C10_NoDuplicateDesigns ==
    \A r \in Requests :
        req[r].state = "running" =>
            LET raw == received[r]
                valid == SelectSeq([i \in 1..Len(raw) |-> ConvertURL(raw[i])],
                                   LAMBDA p : p # JsFalse)
                first == SelectSeq([i \in 1..Len(valid) |-> i],
                                   LAMBDA i : \A j \in 1..(i - 1) : valid[j].url # valid[i].url)
            IN  /\ \A i, j \in 1..Len(req[r].urls) :
                      i # j => req[r].urls[i].url # req[r].urls[j].url
                /\ req[r].urls = [n \in 1..Len(first) |-> valid[first[n]]]

\* the design reference and hint a raw reference stands for: the reference
\* itself, or the reference with its final "_thumb.png" / "_thumb.jpg" removed
DesignReference(u) ==
    IF Len(u) >= 1 /\ u[Len(u)] = DotBfd
    THEN [url |-> u, isThumbTransparent |-> Undefined]
    ELSE IF Len(u) >= 2 /\ u[Len(u) - 1] = DotBfd /\ u[Len(u)] = ThumbPng
    THEN [url |-> SubSeq(u, 1, Len(u) - 1), isThumbTransparent |-> "true"]
    ELSE IF Len(u) >= 2 /\ u[Len(u) - 1] = DotBfd /\ u[Len(u)] = ThumbJpg
    THEN [url |-> SubSeq(u, 1, Len(u) - 1), isThumbTransparent |-> "false"]
    ELSE JsFalse

\* C11: a raw reference ending in .bfd is kept as it is with no hint, one
\* ending in .bfd_thumb.png becomes its .bfd reference with the hint true, one
\* ending in .bfd_thumb.jpg becomes its .bfd reference with the hint false,
\* and any other reference is dropped: the validated batch, and so the shards,
\* hold exactly the design references of the distinct raw references.
C11_ReferencesNormalised ==
    \A r \in Requests :
        req[r].state = "running" =>
            LET unique == RemoveDuplicates(received[r])
                wanted == SelectSeq([i \in 1..Len(unique) |-> DesignReference(unique[i])],
                                    LAMBDA p : p # JsFalse)
            IN  /\ req[r].urls = wanted
                /\ \A k \in Instances : \A i \in 1..Len(pipe[r][k].urlsToProcess) :
                      EndsWithBfd(pipe[r][k].urlsToProcess[i].url)

\* the shards of request r, in the order they were created
ShardsOf(r) ==
    LET created == SelectSeq([k \in Instances |-> pipe[r][k]], LAMBDA P : P.phase # "absent")
    IN  [k \in 1..Len(created) |-> created[k].urlsToProcess]

\* the number of shards of request r that hold n references
ShardsOfSize(r, n) ==
    Cardinality({ k \in 1..Len(ShardsOf(r)) : Len(ShardsOf(r)[k]) = n })

\* C12 as stated: ten valid references are partitioned into three shards, one
\* of four references and two of three.
C12_TenGiveFourThreeThree ==
    \A r \in Requests :
        (req[r].state = "running" /\ Len(req[r].urls) = 10)
          => /\ Len(ShardsOf(r)) = 3
             /\ ShardsOfSize(r, 4) = 1
             /\ ShardsOfSize(r, 3) = 2

\* C12 as amended: ten valid references are partitioned into three shards of
\* four, four and two references, in that order.
C12_TenGiveFourFourTwo ==
    \A r \in Requests :
        (req[r].state = "running" /\ Len(req[r].urls) = 10)
          => /\ Len(ShardsOf(r)) = 3
             /\ Len(ShardsOf(r)[1]) = 4
             /\ Len(ShardsOf(r)[2]) = 4
             /\ Len(ShardsOf(r)[3]) = 2

\* a request of ten valid references was admitted and partitioned
C12_Witness ==
    /\ arrived = 1
    /\ req[1].state = "running"
    /\ Len(req[1].urls) = 10
    /\ Len(ShardsOf(1)) = 3

\* C13: the shards of a validated batch of N references, concatenated in
\* shard order, are the batch (so every entry is in exactly one shard, in the
\* original order); every shard created is non-empty, there are at most
\* maxChromeInstances shards and none holds more than ceil(N / 3) entries.
C13_PartitionLossless ==
    \A r \in Requests :
        req[r].state = "running" =>
            LET shards == ShardsOf(r)
                N == Len(req[r].urls)
            IN  /\ Concat(shards) = req[r].urls
                /\ Len(shards) <= maxChromeInstances
                /\ \A k \in 1..Len(shards) :
                      /\ shards[k] # <<>>
                      /\ Len(shards[k]) * maxChromeInstances < N + maxChromeInstances

\* a batch of 225 distinct references was partitioned into three shards of 75
C13_Witness ==
    /\ arrived = 1
    /\ req[1].state = "running"
    /\ Len(req[1].urls) = 225
    /\ Len(ShardsOf(1)) = 3
    /\ \A k \in 1..3 : Len(ShardsOf(1)[k]) = 75

\* C14: once the deadline of a batch has fired, every pipeline of the batch
\* that had not settled has been given the force-terminate signal (its
\* termination.exit() was called and ran), whatever phase it was in and
\* whatever happened when an earlier pipeline was signalled.
C14_EveryRunningPipelineSignalled ==
    \A r \in Requests :
        req[r].timer = "fired" =>
            \A k \in InstanceIDs(req[r].urls) :
                ~pipe[r][k].resolved => k \in req[r].exitCalled

\* the server takes no further step: every callback has run, or the process
\* has died
Stopped == crashed \/ ~ENABLED Next

\* request r was admitted: its handler went past the two refusals
Admitted(r) == req[r].state \in {"running", "done", "threw"}

\* C15: a pipeline that was running when the deadline fired is terminated by
\* the signal: once the server has come to rest its session is closed, it
\* has settled, and the items that were pending, in flight or ready at that
\* time are in none of the buckets it returned.
C15_SignalledPipelineSettles ==
    \A r \in Requests :
        (Stopped /\ req[r].timer = "fired") =>
            \A k \in InstanceIDs(req[r].urls) :
                /\ pipe[r][k].closeCalls >= 1
                /\ pipe[r][k].resolved
                /\ \A id \in 1..Len(pipe[r][k].urlsToProcess) :
                      (\/ Count(pipe[r][k].queuedProjects, id) > 0
                       \/ Count(pipe[r][k].loadingProjects, id) > 0
                       \/ Count(pipe[r][k].preloadedProjects, id) > 0)
                        => /\ Count(pipe[r][k].result.missingProjects, id) = 0
                           /\ Count(pipe[r][k].result.unopenedProjects, id) = 0

\* a session of request r could not be created
LaunchFailed(r) == \E k \in Instances : pipe[r][k].phase = "failed"

\* C16: every admitted batch gets its response, and that response is the
\* report (status 200), also when the deadline fired before the work was
\* done: the server never comes to rest with an admitted batch unanswered or,
\* unless one of its sessions could not be created, answered with an error.
C16_AdmittedBatchGetsReport ==
    \A r \in Requests :
        (Stopped /\ Admitted(r)) =>
            /\ replies[r].status # 0
            /\ ~LaunchFailed(r) => replies[r].status = 200

\* every pipeline of request r has resolved
AllSettled(r) == \A k \in InstanceIDs(req[r].urls) : pipe[r][k].resolved

\* C18: a report carries the timeout prefix exactly when the deadline fired
\* before every pipeline had settled.  A batch whose deadline fired is
\* answered with a prefixed report; a batch whose pipelines all settled
\* first has its timer cleared, and is answered with a successful report
\* that has no prefix.
C18_PrefixIffDeadlineFired ==
    \A r \in Requests :
        /\ replies[r].status = 200 /\ Admitted(r)
             => (req[r].result.timedOutPrefix <=> req[r].timer = "fired")
        /\ (Stopped /\ req[r].timer = "fired")
             => replies[r].status = 200 /\ req[r].result.timedOutPrefix
        /\ (Stopped /\ Admitted(r) /\ AllSettled(r) /\ req[r].timer # "fired")
             => /\ req[r].timer = "cleared"
                /\ replies[r].status = 200
                /\ ~req[r].result.timedOutPrefix

\* C17: when the deadline fires, every pipeline of the batch that has
\* returned has been disarmed, and the step leaves that pipeline as it was:
\* its session is not closed again and the buckets it returned are the same.
C17_FinishedPipelineUntouched ==
    [][\A r \in Requests :
         (req[r].timer = "armed" /\ req'[r].timer = "fired") =>
             \A k \in InstanceIDs(req[r].urls) :
                 pipe[r][k].resolved =>
                     /\ req[r].exit[k] = "noop"
                     /\ pipe'[r][k] = pipe[r][k]]_vars

\* the deadline fired after one pipeline had returned and been disarmed,
\* while a sibling was still at work
C17_Witness ==
    \E r \in Requests :
        /\ req[r].timer = "fired"
        /\ \E k, j \in InstanceIDs(req[r].urls) :
              /\ pipe[r][k].resolved
              /\ req[r].exit[k] = "noop"
              /\ pipe[r][k].closeCalls = 1
              /\ req[r].exit[j] = "unset"
              /\ pipe[r][j].phase = "running"

\* the bucket named b of every shard of request r, one after the other in
\* shard order, without the field the handler deletes before it replies
ShardByShard(r, b) ==
    LET ids == InstanceIDs(req[r].urls)
        all == Concat([k \in 1..Cardinality(ids) |-> pipe[r][k].result[b]])
    IN  [i \in 1..Len(all) |-> [all[i] EXCEPT !.transparencyMismatch = Undefined]]

\* C19: a batch is answered only once every pipeline of it has settled, and
\* each bucket of the report lists the entries of the shards in shard order,
\* each shard's entries in the order the shard returned them.
C19_ResponseAfterAllSettled ==
    \A r \in Requests :
        (Admitted(r) /\ replies[r].status # 0) =>
            /\ \A k \in InstanceIDs(req[r].urls) :
                  pipe[r][k].resolved \/ pipe[r][k].phase = "failed"
            /\ replies[r].status = 200 =>
                  \A b \in {"openedProjects", "missingProjects",
                             "fontSwapProjects", "unopenedProjects"} :
                      req[r].result[b] = ShardByShard(r, b)

\* the handler of request r has ended and every session it started resolved
EndedWithAllResolved(r) ==
    /\ req[r].state \in {"done", "threw"}
    /\ \A k \in Instances : pipe[r][k].phase # "absent" => pipe[r][k].resolved

\* C20: a batch whose sessions all resolved is answered with its report
\* whether or not the appends to the two logs succeed, and afterwards the
\* single-flight flag is held only by a batch admitted later.
C20_LogFailureDoesNotFailBatch ==
    \A r \in Requests :
        EndedWithAllResolved(r) =>
            /\ replies[r].status = 200
            /\ (variant = "sharded" /\ isRunning) => \E q \in Requests : q > r /\ Admitted(q)

\* the entries the shards of request r returned in the bucket named b, in
\* report order, as the pipelines made them
ShardEntries(r, b) ==
    Concat([k \in 1..Cardinality(InstanceIDs(req[r].urls)) |-> pipe[r][k].result[b]])

\* request r is the only batch admitted so far
OnlyBatch(r) == \A q \in Requests \ {r} : req[q].state = "none"

\* C21: when the first batch has been answered with its report, the mismatch
\* log holds exactly the thumbnail references of the opened entries whose
\* transparencyMismatch is true, in report order; the font log holds every
\* font of every font-swap entry, in report order, repeated as often as it
\* was demanded; and no opened entry of the report has a transparencyMismatch.
C21_LogsHoldWhatTheReportDemands ==
    \A r \in Requests :
        (req[r].state = "done" /\ OnlyBatch(r) /\ variant = "sharded") =>
            LET opened == ShardEntries(r, "openedProjects")
                swaps == ShardEntries(r, "fontSwapProjects")
                hits == SelectSeq(opened, LAMBDA p : p.transparencyMismatch = "true")
            IN  /\ transparencyCsv = [i \in 1..Len(hits) |-> hits[i].thumbURL]
                /\ Len(fontsCsv) = Len(swaps)
                /\ \A i \in 1..Len(swaps) : swaps[i].fontsToSwap = <<fontsCsv[i]>>
                /\ Len(req[r].result.openedProjects) = Len(opened)
                /\ \A i \in 1..Len(opened) :
                      /\ req[r].result.openedProjects[i].transparencyMismatch = Undefined
                      /\ req[r].result.openedProjects[i].thumbURL = opened[i].thumbURL

\* two entries of one report demanded the same font, and it was logged twice
C21_Witness ==
    /\ req[1].state = "done"
    /\ OnlyBatch(1)
    /\ Len(req[1].result.fontSwapProjects) = 2
    /\ fontsCsv = <<"f1", "f1">>

\* the render stage of P is idle while an item is ready, or nothing is left
\* to fetch or render
RenderDue(P) ==
    /\ P.opening = <<>>
    /\ \/ P.preloadedProjects # <<>>
       \/ P.queuedProjects = <<>> /\ P.loadingProjects = <<>> /\ P.preloadedProjects = <<>>

\* a callback of P is still to run that calls openNextProject or resolves
\* the pipeline: the last handler of a fetch, or the continuation of a close
WakeUpPending(P) ==
    \/ \E i \in 1..Len(P.chain) : P.chain[i] = "final"
    \/ P.closing > 0

\* every item of P is in one of the buckets P returned
AllReported(P) ==
    /\ P.resolved
    /\ BucketTotal(P.result) = Len(P.urlsToProcess)

\* C22: a pipeline running on a non-empty shard is never in a state where a
\* render is due and no callback is left that will start it or complete the
\* pipeline; and, every fetch and render settling, it eventually returns
\* with every item in a bucket.
C22_NoLostWakeUp ==
    /\ [](\A r \in Requests, k \in Instances :
             (/\ pipe[r][k].phase = "running"
              /\ pipe[r][k].urlsToProcess # <<>>
              /\ RenderDue(pipe[r][k]))
               => WakeUpPending(pipe[r][k]) \/ pipe[r][k].resolved)
    /\ ((pipe[1][1].phase = "running" /\ pipe[1][1].urlsToProcess # <<>>)
          ~> AllReported(pipe[1][1]))

\* a pipeline has returned with every one of its MaxItems items in a bucket
C22_Witness ==
    /\ Len(pipe[1][1].urlsToProcess) = MaxItems
    /\ AllReported(pipe[1][1])
    /\ pipe[1][1].closing = 0

\* C23: a pipeline started on an empty list returns four empty buckets and
\* closes its session: it does not come to rest unresolved.
C23_EmptyPipelineReturns ==
    (/\ pipe[1][1].phase = "running"
     /\ pipe[1][1].urlsToProcess = <<>>
     /\ ~ENABLED PipelineStep(1, 1))
      => /\ pipe[1][1].resolved
         /\ pipe[1][1].closeCalls = 1
         /\ pipe[1][1].result = NoBuckets

\* the fetches of P that the page has not answered yet
Outstanding(P) == { i \in 1..Len(P.chain) : P.chain[i] \in {"net1", "net2"} }

\* C25: in every state of a session at most five prefetches are in flight:
\* loadingProjects never holds more than five projects and the page never
\* has more than five fetches unanswered.
C25_AtMostFiveInFlight ==
    \A r \in Requests, k \in Instances :
        /\ Len(pipe[r][k].loadingProjects) <= 5
        /\ Cardinality(Outstanding(pipe[r][k])) <= 5

\* five fetches are in flight and a sixth project waits in the queue after a
\* completion has already started the fetch that replaced it
C25_Witness ==
    /\ Len(pipe[1][1].loadingProjects) = 5
    /\ Cardinality(Outstanding(pipe[1][1])) = 5
    /\ pipe[1][1].timersFired = 5
    /\ \E i \in 1..Len(pipe[1][1].chain) : pipe[1][1].chain[i] = "done"

\* nothing of P is pending, in flight, ready or being rendered
NothingLeft(P) ==
    /\ P.queuedProjects = <<>>
    /\ P.loadingProjects = <<>>
    /\ P.preloadedProjects = <<>>
    /\ P.opening = <<>>
    /\ Outstanding(P) = {}

\* C24: a pipeline begins to close its session only when nothing is pending,
\* in flight, ready or being rendered, nothing is started afterwards, and it
\* returns only after it has closed the session.
C24_CompletesOnlyWhenDrained ==
    \A r \in Requests, k \in Instances :
        /\ pipe[r][k].closeCalls >= 1 => NothingLeft(pipe[r][k])
        /\ pipe[r][k].resolved => pipe[r][k].closeCalls >= 1 /\ pipe[r][k].closing < pipe[r][k].closeCalls

\* a pipeline of MaxItems items is closing its session and has not returned
C24_Witness ==
    /\ Len(pipe[1][1].urlsToProcess) = MaxItems
    /\ pipe[1][1].closing = 1
    /\ pipe[1][1].closeCalls = 1
    /\ ~pipe[1][1].resolved
    /\ BucketTotal(pipe[1][1]) = MaxItems

\* the identities of the projects of a list, in list order
IdsOf(projects) == [i \in 1..Len(projects) |-> projects[i].id]

\* list t is list s, or s with one more element at its end
SameOrAppended(s, t) == t = s \/ (Len(t) = Len(s) + 1 /\ SubSeq(t, 1, Len(s)) = s)

\* C26: within a session the ready set grows at its end and is consumed from
\* its front, the project a render starts with is the one that has been
\* ready longest, every bucket grows at its end only, and the buckets are
\* returned in that order.
C26_ReadyOrderIsRenderOrder ==
    [][\A r \in Requests, k \in Instances :
         LET P == pipe[r][k]
             Q == pipe'[r][k]
             ready == IdsOf(P.preloadedProjects)
         IN  (P.phase = "running" /\ Q.phase = "running") =>
               /\ \/ SameOrAppended(ready, IdsOf(Q.preloadedProjects))
                  \/ ready # <<>> /\ IdsOf(Q.preloadedProjects) = Tail(ready)
               /\ \A i \in 1..Len(Q.opening) :
                     (\A j \in 1..Len(P.opening) : P.opening[j].id # Q.opening[i].id)
                       => ready # <<>> /\ Q.opening[i].id = Head(ready)
               /\ \A b \in {"openedProjects", "missingProjects",
                             "fontSwapProjects", "unopenedProjects"} :
                     /\ SameOrAppended(IdsOf(P[b]), IdsOf(Q[b]))
                     /\ (Q.resolved /\ ~P.resolved) => IdsOf(Q.result[b]) = IdsOf(Q[b])]_vars

\* the second project of the list was ready first and was opened first
C26_Witness ==
    /\ pipe[1][1].resolved
    /\ IdsOf(pipe[1][1].result.openedProjects) = <<2, 1>>

\* the project with identity id is in the list
InList(projects, id) == Count(projects, id) > 0

\* C27: an item reaches Missing only in the step in which its own second
\* fetch fails and Unopened only in the step in which its own render throws;
\* such a step moves no sibling into a failure bucket, loses none and does
\* not reject the pipeline; every entry of a failure bucket carries its own
\* failure; and the pipeline still returns with every item reported.
C27_FailureIsolation ==
    /\ [][\A id \in 1..Len(pipe[1][1].urlsToProcess) :
             LET P == pipe[1][1]
                 Q == pipe'[1][1]
             IN  P.phase = "running" =>
                   /\ Q.phase = "running"
                   /\ Occurrences(Q, id) = 1
                   /\ (InList(Q.missingProjects, id) /\ ~InList(P.missingProjects, id))
                        => P.chain[id] = "net2" /\ Q.chain[id] = "final"
                   /\ (InList(Q.unopenedProjects, id) /\ ~InList(P.unopenedProjects, id))
                        => InList(P.opening, id)]_vars
    /\ [](\A i \in 1..Len(pipe[1][1].missingProjects) :
             BothFetchesFailed(pipe[1][1].missingProjects[i]))
    /\ [](\A i \in 1..Len(pipe[1][1].unopenedProjects) :
             /\ pipe[1][1].unopenedProjects[i].sizeInKB # 0
             /\ pipe[1][1].unopenedProjects[i].error = RenderThrows.error)
    /\ ((/\ pipe[1][1].phase = "running"
          /\ pipe[1][1].missingProjects \o pipe[1][1].unopenedProjects # <<>>)
           ~> AllReported(pipe[1][1]))

\* the first item could not be fetched, the second could not be rendered,
\* and the pipeline returned both
C27_Witness ==
    /\ pipe[1][1].resolved
    /\ IdsOf(pipe[1][1].result.missingProjects) = <<1>>
    /\ IdsOf(pipe[1][1].result.unopenedProjects) = <<2>>

\* where the project id of the pipeline P is: 0 queued (Pending), 1 loading
\* (Fetching), 2 preloaded (Ready), 3 in openProjectAndGenerateThumbnail
\* (Rendering), 4 in the bucket a render ends in, 5 in missingProjects
StageOf(P, id) ==
    CASE InList(P.queuedProjects, id) -> 0
      [] InList(P.loadingProjects, id) -> 1
      [] InList(P.preloadedProjects, id) -> 2
      [] InList(P.opening, id) -> 3
      [] InList(P.missingProjects, id) -> 5
      [] OTHER -> 4

\* how far the fetch chain of a project has come
ChainRank(c) ==
    CASE c = "idle" -> 0
      [] c = "net1" -> 1
      [] c = "net2" -> 2
      [] c = "final" -> 3
      [] c = "done" -> 4
      [] OTHER -> 5

\* the entry of the project id in the list
EntryOf(projects, id) ==
    projects[CHOOSE i \in 1..Len(projects) : projects[i].id = id]

\* C28: a step leaves an item where it is or moves it one stage on, queued to
\* loading to preloaded to rendering to a render bucket, or from loading to
\* missing; a render starts only for a preloaded item whose fetch succeeded;
\* the page makes its first request for a queued item only, a second one only
\* after a first, and never a third.
C28_ItemLifecycle ==
    /\ [][\A id \in 1..Len(pipe[1][1].urlsToProcess) :
             LET P == pipe[1][1]
                 Q == pipe'[1][1]
                 from == StageOf(P, id)
                 to == StageOf(Q, id)
             IN  P.phase = "running" =>
                   /\ \/ to = from
                      \/ from \in 0..3 /\ to = from + 1
                      \/ from = 1 /\ to = 5
                   /\ (to = 3 /\ from # 3) =>
                        /\ EntryOf(P.preloadedProjects, id).sizeInKB # 0
                        /\ EntryOf(P.preloadedProjects, id).error = Undefined
                        /\ P.chain[id] \in {"final", "done"}
                   /\ ChainRank(Q.chain[id]) >= ChainRank(P.chain[id])
                   /\ (Q.chain[id] = "net1" /\ P.chain[id] # "net1") => P.chain[id] = "idle"
                   /\ (Q.chain[id] = "net2" /\ P.chain[id] # "net2") => P.chain[id] = "net1"
                   /\ (from = 1) = (P.chain[id] \in {"net1", "net2"})]_vars
    /\ [](\A id \in 1..Len(pipe[1][1].urlsToProcess) :
             /\ Count(pipe[1][1].opening, id) <= 1
             /\ \A i \in 1..Len(Finished(pipe[1][1])) : Finished(pipe[1][1])[i].attempts <= 2)

\* the first item was fetched at the second request and its render threw; the
\* second was rendered after it
C28_Witness ==
    /\ pipe[1][1].resolved
    /\ IdsOf(pipe[1][1].unopenedProjects) = <<1>>
    /\ pipe[1][1].unopenedProjects[1].attempts = 2
    /\ IdsOf(pipe[1][1].openedProjects) = <<2>>

\* C29: a step that writes a long-load line for an item happens only while
\* the page has not yet answered for that item, and changes nothing else of
\* the pipeline: the lists, the buckets and every chain stay as they are and
\* the timer is armed again.  A timer is armed as long as its fetch is
\* outstanding and is cleared once the chain of the item has ended.
C29_WatchdogOnlyObserves ==
    /\ [][\A id \in 1..Len(pipe[1][1].longLoadReports) :
             LET P == pipe[1][1]
                 Q == pipe'[1][1]
             IN  Q.longLoadReports[id] # P.longLoadReports[id] =>
                   /\ P.chain[id] \in {"net1", "net2"}
                   /\ InList(P.loadingProjects, id)
                   /\ Q = [P EXCEPT !.longLoadReports[id] = @ + 1]
                   /\ Q.watchdog[id] = "armed"]_vars
    /\ [](\A id \in 1..Len(pipe[1][1].chain) :
             /\ pipe[1][1].chain[id] \in {"net1", "net2"} => pipe[1][1].watchdog[id] = "armed"
             /\ pipe[1][1].chain[id] = "done" => pipe[1][1].watchdog[id] = "cleared"
             /\ pipe[1][1].chain[id] = "idle" => pipe[1][1].watchdog[id] = "none")

\* the timer of the first item fired while it was loading, and the item was
\* fetched and rendered afterwards
C29_Witness ==
    /\ pipe[1][1].resolved
    /\ pipe[1][1].longLoadReports[1] >= 1
    /\ pipe[1][1].openedProjects # <<>>
    /\ pipe[1][1].openedProjects[1].id = 1

\* the requests of the counting endpoint that were admitted and have neither
\* completed (with a report or with an exception) nor timed out
LiveSessions ==
    { r \in Requests : req[r].state = "running" /\ ~req[r].timedOut }

\* C30: while the server runs, activeChromeInstances lies in
\* 0..maxChromeInstances and is the number of admitted requests that have
\* neither completed nor timed out.
C30_CounterCountsLiveSessions ==
    (variant = "capacity" /\ ~crashed) =>
        /\ activeChromeInstances \in 0..maxChromeInstances
        /\ activeChromeInstances = Cardinality(LiveSessions)

\* C31: a request of the counting endpoint whose deadline fired before its
\* handler ended is answered 503 'Timed out', its pipeline has been given the
\* force-terminate signal (forceTerminate.exit() was called and ran), and
\* nothing of it has reached the font or the mismatch log.
C31_TimedOutIsAnsweredAndTerminated ==
    variant = "capacity" =>
        \A r \in Requests :
            (req[r].timedOut /\ req[r].state = "running") =>
                /\ replies[r] = [status |-> 503, error |-> "Timed out"]
                /\ 1 \in req[r].exitCalled
                /\ fontsCsv = <<>> /\ transparencyCsv = <<>>

\* the session of the pipeline P is live: chromium.launch was called (line 24)
\* and browser.close() (line 154) has not returned.  A launch sequence that
\* threw may have left its browser open, so it counts as live
SessionLive(P) ==
    \/ P.phase \in {"launching", "failed"}
    \/ P.phase = "running" /\ ~P.resolved

OpenSessions ==
    { s \in Requests \X Instances : SessionLive(pipe[s[1]][s[2]]) }

\* C32: in either build of the server, at most maxChromeInstances sessions
\* are live at any time.
C32_AtMostThreeSessions ==
    Cardinality(OpenSessions) <= maxChromeInstances

\* the counting endpoint holds three live sessions and has turned a request away
C32_Witness ==
    /\ variant = "capacity"
    /\ Cardinality(OpenSessions) = maxChromeInstances
    /\ \E r \in Requests : replies[r].error = "Too many active Chrome instances."

\* C33: in the earlier handler the list the pipeline works on is the list of
\* the request without its duplicates, so that no reference is in it twice.
C33_PipelineGetsDeduplicatedList ==
    variant = "single" =>
        \A r \in Requests :
            pipe[r][1].phase # "absent" =>
                LET handed == [i \in 1..Len(pipe[r][1].urlsToProcess) |->
                                  pipe[r][1].urlsToProcess[i].url]
                IN  /\ handed = RemoveDuplicates(received[r])
                    /\ Len(handed) = Cardinality(Range(received[r]))
                    /\ \A i, j \in 1..Len(handed) : handed[i] = handed[j] => i = j

\* C34: a project whose request is outstanding is in loadingProjects exactly
\* once, so the success or failure handler that runs next finds it; no chain
\* ever ends with 'Can't find loading URL'; and the last handler of the chain,
\* which opens the next project and starts the next fetch, runs after it.
C34_LoadingURLAlwaysFound ==
    /\ [](\A id \in 1..Len(pipe[1][1].chain) :
             /\ pipe[1][1].chain[id] # "rejected"
             /\ pipe[1][1].chain[id] \in {"net1", "net2"}
                  => Count(pipe[1][1].loadingProjects, id) = 1
             /\ pipe[1][1].chain[id] \in {"final", "done"}
                  => Count(pipe[1][1].loadingProjects, id) = 0)
    /\ \A id \in 1..MaxItems :
          (Len(pipe[1][1].chain) >= id /\ pipe[1][1].chain[id] \in {"net1", "net2"})
            ~> (Len(pipe[1][1].chain) >= id /\ pipe[1][1].chain[id] = "done")

\* the failure handler of the second item has run while the first item,
\* requested before it, is still loading
C34_Witness ==
    /\ IdsOf(pipe[1][1].loadingProjects) = <<1>>
    /\ IdsOf(pipe[1][1].missingProjects) = <<2>>
    /\ pipe[1][1].chain[2] = "final"

====
